---------------------------- MODULE Spec2Model ----------------------------
(***************************************************************************)
(* GrovePi host-side driver (grovepi.py): the command/response protocol    *)
(* layer between the Raspberry Pi and the GrovePi firmware.                *)
(*                                                                         *)
(* The library is synchronous and single-threaded: one facade call runs    *)
(* to completion before the next one starts.  Each facade function is one  *)
(* action.  The bus (smbus) is the environment: every transport primitive  *)
(* either succeeds or raises IOError, and the bytes it delivers are chosen  *)
(* by the environment.  The state records the last call: its name, its     *)
(* arguments, the trace of bus primitives and sleeps it performed, and how *)
(* it ended (value returned or exception raised).                          *)
(***************************************************************************)
EXTENDS Integers, Sequences, FiniteSets, TLC

VARIABLES
    op,       \* name of the facade function last called ("none" initially)
    args,     \* its integer arguments, in order
    sarg,     \* its string argument (temp's model, pin_mode's mode), "" if none
    trace,    \* bus primitives and sleeps performed by the call, in order
    outcome,  \* how the call ended: the exception raised, or NoExc
    result,   \* the value returned (NoResult when the call raised)
    pc        \* where the command-line tool's process stands ("none" outside it)

vars == <<op, args, sarg, trace, outcome, result, pc>>

---------------------------------------------------------------------------
(* Bounds and input samples                                                *)

\* Pins 2..MaxPin are on-board pins; 300 stands for an out-of-range pin.
MaxPin == 3

PinSamples == (2 .. MaxPin) \cup {300}

\* Integer arguments other than pins (values, levels, states, colours).
ValueSamples == {-1, 0, 1, 15, 255, 256, 1023, 65535, 65536}

\* Bytes the firmware may deliver.
ByteSamples == {0, 1, 3, 15, 32, 33, 224, 255}

\* Bytes delivered to a read whose value the caller throws away.
DiscardSamples == {0, 255}

\* Outcome of one transport primitive: success, or the errno of the IOError.
IoErrors == {"EREMOTEIO", "ETIMEDOUT"}

IoOutcomes == {"ok"} \cup IoErrors

---------------------------------------------------------------------------
(* Program constants                                                       *)

I2C_ADDRESS == 4

dRead_cmd == <<1>>
dWrite_cmd == <<2>>
aRead_cmd == <<3>>
aWrite_cmd == <<4>>
pMode_cmd == <<5>>
uRead_cmd == <<7>>
version_cmd == <<8>>
acc_xyz_cmd == <<20>>
rtc_getTime_cmd == <<30>>
dht_temp_cmd == <<40>>
ledbar_init_cmd == <<50>>
ledbar_orient_cmd == <<51>>
ledbar_level_cmd == <<52>>
ledbar_set_one_cmd == <<53>>
ledbar_toggle_one_cmd == <<54>>
ledbar_set_cmd == <<55>>
ledbar_get_cmd == <<56>>
fourDigitInit_cmd == <<70>>
fourDigitBrightness_cmd == <<71>>
fourDigitValue_cmd == <<72>>
fourDigitValueZeros_cmd == <<73>>
fourDigitIndividualDigit_cmd == <<74>>
fourDigitIndividualLeds_cmd == <<75>>
fourDigitScore_cmd == <<76>>
fourDigitAnalogRead_cmd == <<77>>
fourDigitAllOn_cmd == <<78>>
fourDigitAllOff_cmd == <<79>>
storeColor_cmd == <<90>>
chainableRgbLedInit_cmd == <<91>>
chainableRgbLedTest_cmd == <<92>>
chainableRgbLedSetPattern_cmd == <<93>>
chainableRgbLedSetModulo_cmd == <<94>>
chainableRgbLedSetLevel_cmd == <<95>>
ir_read_cmd == <<21>>
ir_recv_pin_cmd == <<22>>
dus_sensor_read_cmd == <<10>>
dust_sensor_en_cmd == <<14>>
dust_sensor_dis_cmd == <<15>>
encoder_read_cmd == <<11>>
encoder_en_cmd == <<16>>
encoder_dis_cmd == <<17>>
flow_read_cmd == <<12>>
flow_disable_cmd == <<13>>
flow_en_cmd == <<18>>

unused == 0

\* Largest value of the two-byte operations ("value: (0-65535)").
MaxWord == 65535

---------------------------------------------------------------------------
(* Exceptions, return values, trace events                                 *)

\* No exception: the call returned.
NoExc == [type |-> "none", argkind |-> "none", arg |-> ""]

\* An exception of class `type`; argkind/arg describe its single argument:
\* ("none", "") for a bare raise, ("str", s) for a message string,
\* ("IOError", errno) when the argument is the caught IOError itself.
Exc(type, argkind, arg) == [type |-> type, argkind |-> argkind, arg |-> arg]

GrovePiException(argkind, arg) == Exc("GrovePiException", argkind, arg)

\* Return values.  kind is the Python type; ints/str/floats hold the payload.
NoResult == [kind |-> "no value", ints |-> <<>>, str |-> "", floats |-> <<>>]
NoneResult == [kind |-> "None", ints |-> <<>>, str |-> "", floats |-> <<>>]
IntResult(n) == [kind |-> "int", ints |-> <<n>>, str |-> "", floats |-> <<>>]
ListResult(s) == [kind |-> "list", ints |-> s, str |-> "", floats |-> <<>>]
TupleResult(s) == [kind |-> "tuple", ints |-> s, str |-> "", floats |-> <<>>]
StrResult(s) == [kind |-> "str", ints |-> <<>>, str |-> s, floats |-> <<>>]
FloatListResult(fs) == [kind |-> "float list", ints |-> <<>>, str |-> "", floats |-> fs]

\* One step of a call as seen on the bus (or the clock):
\*   kind "write"       data = the frame handed to the transport
\*   kind "sleep"       data = <<milliseconds>>
\*   kind "read_byte"   data = <<byte>>, or <<>> when the read failed
\*   kind "read_block"  data = the block, or <<>> when the read failed
Ev(kind, addr, data, io) == [kind |-> kind, addr |-> addr, data |-> data, io |-> io]

\* An execution in progress: the trace so far and the pending exception.
Begin == [trace |-> <<>>, exc |-> NoExc]

\* Python raise: the first exception raised is the one that propagates.
Raise(x, e) == IF x.exc = NoExc THEN [x EXCEPT !.exc = e] ELSE x

---------------------------------------------------------------------------
(* Python and struct helpers                                               *)

\* Python list indexing, 0-based: s[i]
At(s, i) == s[i + 1]

\* Python slicing s[a:b] with 0 <= a <= b: stops at the end of the list.
Slice(s, a, b) == SubSeq(s, a + 1, IF b < Len(s) THEN b ELSE Len(s))

\* Python [v] * n
Repeat(v, n) == [i \in 1 .. n |-> v]

\* Python truth value of an integer
Truthy(v) == v # 0

\* v & 255 and v >> 8 on Python integers (floor semantics for negatives)
LowByte(v) == v % 256
HighBits(v) == v \div 256

RECURSIVE Pow2(_)
Pow2(n) == IF n = 0 THEN 1 ELSE 2 * Pow2(n - 1)

\* a ^ b (bitwise exclusive or) on non-negative integers
RECURSIVE Xor(_, _)
Xor(a, b) ==
    IF a = 0 THEN b
    ELSE IF b = 0 THEN a
    ELSE ((a + b) % 2) + 2 * Xor(a \div 2, b \div 2)

\* "%s" % n for an integer n
DigitChar(d) ==
    CASE d = 0 -> "0" [] d = 1 -> "1" [] d = 2 -> "2" [] d = 3 -> "3"
      [] d = 4 -> "4" [] d = 5 -> "5" [] d = 6 -> "6" [] d = 7 -> "7"
      [] d = 8 -> "8" [] d = 9 -> "9"

RECURSIVE DecStr(_)
DecStr(n) ==
    IF n < 0 THEN "-" \o DecStr(0 - n)
    ELSE IF n < 10 THEN DigitChar(n)
    ELSE DecStr(n \div 10) \o DigitChar(n % 10)

\* A Python float as decoded from an IEEE-754 single and rounded to two
\* decimals.  cls "finite": the value is (-1)^neg * h / 100;
\* cls "big": the value is the integer (-1)^neg * h * 2^e, which round(x, 2)
\* leaves unchanged; cls "inf", "nan": h = e = 0.
Float(cls, neg, h, e) == [cls |-> cls, neg |-> neg, h |-> h, e |-> e]

\* n / d rounded to the nearest integer, ties to even (d a power of two, the
\* round-half-even of round(x, 2) on an exactly representable tie).
RoundHalfEven(n, d) ==
    LET q == n \div d
        r == n % d
    IN  IF 2 * r > d THEN q + 1
        ELSE IF 2 * r = d THEN q + (q % 2)
        ELSE q

\* round(struct.unpack('f', bytearray(b))[0], 2) for a 4-byte list b
\* (little-endian single: sign 1 bit, exponent 8 bits, fraction 23 bits).
unpack_f_round2(b) ==
    LET neg  == b[4] \div 128
        E    == (b[4] % 128) * 2 + b[3] \div 128
        M    == (b[3] % 128) * 65536 + b[2] * 256 + b[1]
        sig  == 8388608 + M
        n    == sig * 100
        sh   == 150 - E
    IN  IF E = 255 THEN (IF M = 0 THEN Float("inf", neg, 0, 0) ELSE Float("nan", neg, 0, 0))
        ELSE IF E = 0 THEN Float("finite", neg, 0, 0)
        ELSE IF sh < 0 THEN Float("big", neg, sig, 0 - sh)
        ELSE IF sh > 31 THEN Float("finite", neg, 0, 0)
        ELSE IF sh = 31 THEN Float("finite", neg, IF n > 1073741824 THEN 1 ELSE 0, 0)
        ELSE Float("finite", neg, RoundHalfEven(n, Pow2(sh)), 0)

\* math.isnan
isnan(f) == f.cls = "nan"

---------------------------------------------------------------------------
(* Response blocks the transport may deliver                               *)

\* IEEE-754 singles as the firmware lays them out (little-endian):
\* 0.0, 25.5, 0.125, -40.1, a denormal, 2^25, +inf, NaN, and 0xFFFFFFFF (NaN).
FloatSamples ==
    { <<0, 0, 0, 0>>, <<0, 0, 204, 65>>, <<0, 0, 0, 62>>, <<102, 102, 32, 194>>,
      <<1, 0, 0, 0>>, <<0, 0, 0, 76>>, <<0, 0, 128, 127>>, <<0, 0, 192, 127>>,
      <<255, 255, 255, 255>> }

\* The 5-byte response block of the protocol.
Blocks5 ==
    { <<b0, b1, b2, b3, b4>> :
        b0 \in {0, 7, 255}, b1 \in ByteSamples, b2 \in ByteSamples,
        b3 \in {0, 33, 255}, b4 \in {0, 255} }

\* A block long enough to carry the two floats of the DHT sensor.
Blocks9 == { <<b0>> \o t \o h : b0 \in {0, 255}, t \in FloatSamples, h \in FloatSamples }

\* The 32-byte block python-smbus returns, zero-filled after the payload.
Blocks32 == { <<0>> \o t \o h \o Repeat(0, 23) : t \in FloatSamples, h \in {<<0, 0, 204, 65>>, <<255, 255, 255, 255>>} }

\* A block cut short inside the second float of the DHT sensor.
Blocks7 == { <<0>> \o t \o <<0, 0>> : t \in FloatSamples }

Blocks == Blocks5 \cup Blocks7 \cup Blocks9 \cup Blocks32

---------------------------------------------------------------------------
(* Bus transport                                                           *)

\* write_i2c_block(block): bus.write_i2c_block_data; IOError -> GrovePiException(e)
write_i2c_block(x, block, io) ==
    IF x.exc # NoExc THEN x
    ELSE IF io = "ok"
         THEN [x EXCEPT !.trace = Append(@, Ev("write", I2C_ADDRESS, block, "ok"))]
         ELSE [trace |-> Append(x.trace, Ev("write", I2C_ADDRESS, block, io)),
               exc |-> GrovePiException("IOError", io)]

\* read_i2c_byte(address): bus.read_byte; IOError -> GrovePiException(e)
read_i2c_byte(x, address, io, n) ==
    IF x.exc # NoExc THEN x
    ELSE IF io = "ok"
         THEN [x EXCEPT !.trace = Append(@, Ev("read_byte", address, <<n>>, "ok"))]
         ELSE [trace |-> Append(x.trace, Ev("read_byte", address, <<>>, io)),
               exc |-> GrovePiException("IOError", io)]

\* Fault: read_i2c_block re-issuing the read once after an IOError.
read_i2c_block_retry(x, address, io, blk) ==
    IF x.exc # NoExc THEN x
    ELSE IF io = "ok"
         THEN [x EXCEPT !.trace = Append(@, Ev("read_block", address, blk, "ok"))]
         ELSE [x EXCEPT !.trace = Append(Append(@, Ev("read_block", address, <<>>, io)),
                                         Ev("read_block", address, blk, "ok"))]

\* read_i2c_block(address): bus.read_i2c_block_data; IOError -> GrovePiException(e)
read_i2c_block(x, address, io, blk) ==
    IF x.exc # NoExc THEN x
    ELSE IF io = "ok"
         THEN [x EXCEPT !.trace = Append(@, Ev("read_block", address, blk, "ok"))]
         ELSE [trace |-> Append(x.trace, Ev("read_block", address, <<>>, io)),
               exc |-> GrovePiException("IOError", io)]

\* time.sleep(ms / 1000); a negative length raises ValueError
sleep(x, ms) ==
    IF x.exc # NoExc THEN x
    ELSE IF ms < 0
         THEN Raise(x, Exc("ValueError", "str", "sleep length must be non-negative"))
         ELSE [x EXCEPT !.trace = Append(@, Ev("sleep", 0, <<ms>>, "ok"))]

\* No call is in progress or awaiting its caller.
Idle == op = "none"

\* The call `name(a, s)` ends: it raised x.exc, or returned ret.
Done(name, a, s, x, ret) ==
    /\ op' = name
    /\ args' = a
    /\ sarg' = s
    /\ trace' = x.trace
    /\ outcome' = x.exc
    /\ result' = IF x.exc = NoExc THEN ret ELSE NoResult
    /\ UNCHANGED pc

---------------------------------------------------------------------------
(* Decoders of the read operations                                         *)

\* analog_read: number[1] * 256 + number[2]
analog_read_decode(number) == At(number, 1) * 256 + At(number, 2)

\* ultrasonic_read: number[1] * 256 + number[2]
ultrasonic_read_decode(number) == At(number, 1) * 256 + At(number, 2)

\* Fault: ledbar_get_bits taking its two bytes one position early.
ledbar_get_bits_decode_from_0(block) == Xor(At(block, 0), At(block, 1) * 256)

\* Fault: ledbar_get_bits decoding byte 1 as the high byte.
ledbar_get_bits_decode_high_first(block) == At(block, 1) * 256 + At(block, 2)

\* ledbar_get_bits: block[1] ^ (block[2] << 8)
ledbar_get_bits_decode(block) == Xor(At(block, 1), At(block, 2) * 256)

\* version: "%s.%s.%s" % (number[1], number[2], number[3])
version_decode(number) ==
    DecStr(At(number, 1)) \o "." \o DecStr(At(number, 2)) \o "." \o DecStr(At(number, 3))

\* Fault: the threshold test of an axis written as b >= 32.
acc_axis_from_32(b) == IF b >= 32 THEN 0 - (b - 224) ELSE b

\* acc_xyz, one axis: if b > 32: b = - (b - 224)
acc_axis(b) == IF b > 32 THEN 0 - (b - 224) ELSE b

acc_xyz_decode(number) ==
    <<acc_axis(At(number, 1)), acc_axis(At(number, 2)), acc_axis(At(number, 3))>>

\* temp: the B value of the thermistor of each sensor revision
b_value(model) ==
    IF model = "1.2" THEN 4250
    ELSE IF model = "1.1" THEN 4250
    ELSE 3975

\* temp: the float 1 / (log(((1023 - a) * 10000 / a) / 10000) / b + 1 / 298.15) - 273.15.
\* The logarithm has no integer model; the value is kept as the pair (a, b)
\* that determines it.
CelsiusResult(a, b) == [kind |-> "float", ints |-> <<a, b>>, str |-> "", floats |-> <<>>]

\* temp, after analog_read returned a:
\*   a = 0         float(1023) * 10000 / 0 raises ZeroDivisionError
\*   a >= 1023     resistance <= 0 and math.log raises ValueError
\*   otherwise     t is finite (the denominator is zero for no integer a), so
\*                 math.isnan(t) is false and t is returned
temp_compute(x, a, b) ==
    IF x.exc # NoExc THEN x
    ELSE IF a = 0 THEN Raise(x, Exc("ZeroDivisionError", "str", "float division by zero"))
    ELSE IF (1023 - a) * 10000 <= 0 THEN Raise(x, Exc("ValueError", "str", "math domain error"))
    ELSE x

\* Fault: dht raising a bare GrovePiException on a not-a-number float.
dht_decode_bare_raise(x, number) ==
    LET t_val == Slice(number, 1, 5)
        h_val == Slice(number, 5, 9)
    IN  IF x.exc # NoExc THEN x
        ELSE IF Len(t_val) # 4 \/ Len(h_val) # 4
             THEN Raise(x, Exc("struct.error", "str", "unpack requires a buffer of 4 bytes"))
        ELSE IF isnan(unpack_f_round2(t_val)) \/ isnan(unpack_f_round2(h_val))
             THEN Raise(x, GrovePiException("none", ""))
        ELSE x

\* dht, after the block was read: unpack the two floats and check them.
\*   struct.unpack('f', ...) raises struct.error unless the slice has 4 bytes
dht_decode(x, number) ==
    LET t_val == Slice(number, 1, 5)
        h_val == Slice(number, 5, 9)
    IN  IF x.exc # NoExc THEN x
        ELSE IF Len(t_val) # 4 \/ Len(h_val) # 4
             THEN Raise(x, Exc("struct.error", "str", "unpack requires a buffer of 4 bytes"))
        ELSE IF isnan(unpack_f_round2(t_val)) \/ isnan(unpack_f_round2(h_val))
             THEN Raise(x, GrovePiException("str", "NaN"))
        ELSE x

dht_result(number) ==
    FloatListResult(<<unpack_f_round2(Slice(number, 1, 5)), unpack_f_round2(Slice(number, 5, 9))>>)

\* Fault: ir_read_signal working on 20 bytes instead of 21.
ir_read_signal_decode_20(block) ==
    LET data_back == Slice(block, 0, 20)
    IN  IF At(data_back, 1) # 255 THEN data_back ELSE Repeat(-1, 20)

\* ir_read_signal: data_back if data_back[1] != 255 else [-1] * 21
ir_read_signal_decode(block) ==
    LET data_back == Slice(block, 0, 21)
    IN  IF At(data_back, 1) # 255 THEN data_back ELSE Repeat(-1, 21)

\* Fault: the sentinel looked for in byte 1 instead of the header byte.
sensor_header_byte_1(x, data_back) ==
    IF x.exc # NoExc THEN x
    ELSE IF At(data_back, 1) # 255 THEN x
    ELSE Raise(x, GrovePiException("none", ""))

\* dust_sensor_read: header 255 raises a bare GrovePiException
sensor_header(x, data_back) ==
    IF x.exc # NoExc THEN x
    ELSE IF At(data_back, 0) # 255 THEN x
    ELSE Raise(x, GrovePiException("none", ""))

dust_sensor_read_decode(data_back) ==
    <<At(data_back, 0), At(data_back, 3) * 256 * 256 + At(data_back, 2) * 256 + At(data_back, 1)>>

encoder_read_decode(data_back) == <<At(data_back, 0), At(data_back, 1)>>

\* Fault: flow_read combining its two payload bytes high byte first.
flow_read_decode_high_first(data_back) ==
    <<At(data_back, 0), At(data_back, 1) * 256 + At(data_back, 2)>>

flow_read_decode(data_back) == <<At(data_back, 0), At(data_back, 2) * 256 + At(data_back, 1)>>

---------------------------------------------------------------------------
(* Facade: GPIO                                                            *)

\* Fault: digital_read reading a block after the byte, as analog_read does.
digital_read_with_block ==
    /\ Idle
    /\ \E pin \in PinSamples, w \in IoOutcomes, r \in IoOutcomes, n \in ByteSamples,
          rk \in IoOutcomes, number \in Blocks5 :
         LET x1 == write_i2c_block(Begin, dRead_cmd \o <<pin, unused, unused>>, w)
             x2 == sleep(x1, 100)
             x3 == read_i2c_byte(x2, I2C_ADDRESS, r, n)
             x4 == read_i2c_block(x3, I2C_ADDRESS, rk, number)
         IN  Done("digital_read", <<pin>>, "", x4, IntResult(At(number, 1)))

digital_read ==
    /\ Idle
    /\ \E pin \in PinSamples, w \in IoOutcomes, r \in IoOutcomes, n \in ByteSamples :
         LET x1 == write_i2c_block(Begin, dRead_cmd \o <<pin, unused, unused>>, w)
             x2 == sleep(x1, 100)
             x3 == read_i2c_byte(x2, I2C_ADDRESS, r, n)
         IN  Done("digital_read", <<pin>>, "", x3, IntResult(n))

\* Fault: digital_write with the unused trailing slot left out of the frame.
digital_write_short_frame ==
    /\ Idle
    /\ \E pin \in PinSamples, value \in ValueSamples, w \in IoOutcomes :
         LET x1 == write_i2c_block(Begin, dWrite_cmd \o <<pin, value>>, w)
         IN  Done("digital_write", <<pin, value>>, "", x1, NoneResult)

digital_write ==
    /\ Idle
    /\ \E pin \in PinSamples, value \in ValueSamples, w \in IoOutcomes :
         LET x1 == write_i2c_block(Begin, dWrite_cmd \o <<pin, value, unused>>, w)
         IN  Done("digital_write", <<pin, value>>, "", x1, NoneResult)

\* Fault: pin_mode with the two mode bits exchanged.
pin_mode_bits_swapped ==
    /\ Idle
    /\ \E pin \in PinSamples, mode \in {"OUTPUT", "INPUT", "output"}, w \in IoOutcomes :
         LET x1 == IF mode = "OUTPUT"
                   THEN write_i2c_block(Begin, pMode_cmd \o <<pin, 0, unused>>, w)
                   ELSE IF mode = "INPUT"
                   THEN write_i2c_block(Begin, pMode_cmd \o <<pin, 1, unused>>, w)
                   ELSE Begin
         IN  Done("pin_mode", <<pin>>, mode, x1, NoneResult)

\* Fault: pin_mode treating every mode other than "OUTPUT" as "INPUT".
pin_mode_else_input ==
    /\ Idle
    /\ \E pin \in PinSamples, mode \in {"OUTPUT", "INPUT", "output"}, w \in IoOutcomes :
         LET x1 == IF mode = "OUTPUT"
                   THEN write_i2c_block(Begin, pMode_cmd \o <<pin, 1, unused>>, w)
                   ELSE write_i2c_block(Begin, pMode_cmd \o <<pin, 0, unused>>, w)
         IN  Done("pin_mode", <<pin>>, mode, x1, NoneResult)

pin_mode ==
    /\ Idle
    /\ \E pin \in PinSamples, mode \in {"OUTPUT", "INPUT", "output"}, w \in IoOutcomes :
         LET x1 == IF mode = "OUTPUT"
                   THEN write_i2c_block(Begin, pMode_cmd \o <<pin, 1, unused>>, w)
                   ELSE IF mode = "INPUT"
                   THEN write_i2c_block(Begin, pMode_cmd \o <<pin, 0, unused>>, w)
                   ELSE Begin
         IN  Done("pin_mode", <<pin>>, mode, x1, NoneResult)

\* The bus trace of analog_read(pin) under the given transport responses.
analog_read_run(pin, w, rb, d, rk, number) ==
    LET x1 == write_i2c_block(Begin, aRead_cmd \o <<pin, unused, unused>>, w)
        x2 == sleep(x1, 100)
        x3 == read_i2c_byte(x2, I2C_ADDRESS, rb, d)
        x4 == read_i2c_block(x3, I2C_ADDRESS, rk, number)
    IN  sleep(x4, 100)

analog_read_call(pin, w, rb, d, rk, number) ==
    Done("analog_read", <<pin>>, "", analog_read_run(pin, w, rb, d, rk, number),
         IntResult(analog_read_decode(number)))

analog_read ==
    /\ Idle
    /\ \E pin \in PinSamples, w \in IoOutcomes, rb \in IoOutcomes, d \in DiscardSamples,
          rk \in IoOutcomes, number \in Blocks :
         analog_read_call(pin, w, rb, d, rk, number)

analog_write ==
    /\ Idle
    /\ \E pin \in PinSamples, value \in ValueSamples, w \in IoOutcomes :
         LET x1 == write_i2c_block(Begin, aWrite_cmd \o <<pin, value, unused>>, w)
         IN  Done("analog_write", <<pin, value>>, "", x1, NoneResult)

temp ==
    /\ Idle
    /\ \E pin \in PinSamples, model \in {"1.0", "1.1", "1.2"}, w \in IoOutcomes,
          rb \in IoOutcomes, d \in DiscardSamples, rk \in IoOutcomes, number \in Blocks :
         LET a  == analog_read_decode(number)
             x1 == analog_read_run(pin, w, rb, d, rk, number)
             x2 == temp_compute(x1, a, b_value(model))
         IN  Done("temp", <<pin>>, model, x2, CelsiusResult(a, b_value(model)))

\* Fault: ultrasonic_read waiting 0.1 s instead of 0.2 s.
ultrasonic_read_call_short_delay(pin, w, rb, d, rk, number) ==
    LET x1 == write_i2c_block(Begin, uRead_cmd \o <<pin, unused, unused>>, w)
        x2 == sleep(x1, 100)
        x3 == read_i2c_byte(x2, I2C_ADDRESS, rb, d)
        x4 == read_i2c_block(x3, I2C_ADDRESS, rk, number)
    IN  Done("ultrasonic_read", <<pin>>, "", x4, IntResult(ultrasonic_read_decode(number)))

ultrasonic_read_call(pin, w, rb, d, rk, number) ==
    LET x1 == write_i2c_block(Begin, uRead_cmd \o <<pin, unused, unused>>, w)
        x2 == sleep(x1, 200)
        x3 == read_i2c_byte(x2, I2C_ADDRESS, rb, d)
        x4 == read_i2c_block(x3, I2C_ADDRESS, rk, number)
    IN  Done("ultrasonic_read", <<pin>>, "", x4, IntResult(ultrasonic_read_decode(number)))

ultrasonic_read ==
    /\ Idle
    /\ \E pin \in PinSamples, w \in IoOutcomes, rb \in IoOutcomes, d \in DiscardSamples,
          rk \in IoOutcomes, number \in Blocks :
         ultrasonic_read_call(pin, w, rb, d, rk, number)

---------------------------------------------------------------------------
(* Facade: firmware version, accelerometer, RTC, DHT                       *)

version ==
    /\ Idle
    /\ \E w \in IoOutcomes, rb \in IoOutcomes, d \in DiscardSamples,
          rk \in IoOutcomes, number \in Blocks :
         LET x1 == write_i2c_block(Begin, version_cmd \o <<unused, unused, unused>>, w)
             x2 == sleep(x1, 100)
             x3 == read_i2c_byte(x2, I2C_ADDRESS, rb, d)
             x4 == read_i2c_block(x3, I2C_ADDRESS, rk, number)
         IN  Done("version", <<>>, "", x4, StrResult(version_decode(number)))

acc_xyz ==
    /\ Idle
    /\ \E w \in IoOutcomes, rb \in IoOutcomes, d \in DiscardSamples,
          rk \in IoOutcomes, number \in Blocks :
         LET x1 == write_i2c_block(Begin, acc_xyz_cmd \o <<unused, unused, unused>>, w)
             x2 == sleep(x1, 100)
             x3 == read_i2c_byte(x2, I2C_ADDRESS, rb, d)
             x4 == read_i2c_block(x3, I2C_ADDRESS, rk, number)
         IN  Done("acc_xyz", <<>>, "", x4, TupleResult(acc_xyz_decode(number)))

rtc_get_time ==
    /\ Idle
    /\ \E w \in IoOutcomes, rb \in IoOutcomes, d \in DiscardSamples,
          rk \in IoOutcomes, number \in Blocks :
         LET x1 == write_i2c_block(Begin, rtc_getTime_cmd \o <<unused, unused, unused>>, w)
             x2 == sleep(x1, 100)
             x3 == read_i2c_byte(x2, I2C_ADDRESS, rb, d)
             x4 == read_i2c_block(x3, I2C_ADDRESS, rk, number)
         IN  Done("rtc_get_time", <<>>, "", x4, ListResult(number))

\* The block is a list, so `number == -1` is false and the except clause for
\* TypeError and IndexError has nothing to catch: GrovePiException passes it.
dht ==
    /\ Idle
    /\ \E pin \in PinSamples, module_type \in {0, 1}, w \in IoOutcomes, rb \in IoOutcomes,
          d \in DiscardSamples, rk \in IoOutcomes, number \in Blocks :
         LET x1 == write_i2c_block(Begin, dht_temp_cmd \o <<pin, module_type, unused>>, w)
             x2 == sleep(x1, 600)
             x3 == read_i2c_byte(x2, I2C_ADDRESS, rb, d)
             x4 == read_i2c_block(x3, I2C_ADDRESS, rk, number)
             x5 == sleep(x4, 100)
             x6 == dht_decode(x5, number)
         IN  Done("dht", <<pin, module_type>>, "", x6, dht_result(number))

---------------------------------------------------------------------------
(* Facade: LED bar                                                         *)

ledbar_init ==
    /\ Idle
    /\ \E pin \in PinSamples, orientation \in ValueSamples, w \in IoOutcomes :
         LET x1 == write_i2c_block(Begin, ledbar_init_cmd \o <<pin, orientation, unused>>, w)
         IN  Done("ledbar_init", <<pin, orientation>>, "", x1, NoneResult)

ledbar_orientation ==
    /\ Idle
    /\ \E pin \in PinSamples, orientation \in ValueSamples, w \in IoOutcomes :
         LET x1 == write_i2c_block(Begin, ledbar_orient_cmd \o <<pin, orientation, unused>>, w)
         IN  Done("ledbar_orientation", <<pin, orientation>>, "", x1, NoneResult)

ledbar_set_level ==
    /\ Idle
    /\ \E pin \in PinSamples, level \in ValueSamples, w \in IoOutcomes :
         LET x1 == write_i2c_block(Begin, ledbar_level_cmd \o <<pin, level, unused>>, w)
         IN  Done("ledbar_set_level", <<pin, level>>, "", x1, NoneResult)

ledbar_set_led ==
    /\ Idle
    /\ \E pin \in PinSamples, led \in ValueSamples, state \in ValueSamples, w \in IoOutcomes :
         LET x1 == write_i2c_block(Begin, ledbar_set_one_cmd \o <<pin, led, state>>, w)
         IN  Done("ledbar_set_led", <<pin, led, state>>, "", x1, NoneResult)

ledbar_toggle_led ==
    /\ Idle
    /\ \E pin \in PinSamples, led \in ValueSamples, w \in IoOutcomes :
         LET x1 == write_i2c_block(Begin, ledbar_toggle_one_cmd \o <<pin, led, unused>>, w)
         IN  Done("ledbar_toggle_led", <<pin, led>>, "", x1, NoneResult)

ledbar_set_bits_call(pin, state, w) ==
    LET byte1 == LowByte(state)
        byte2 == HighBits(state)
        x1 == write_i2c_block(Begin, ledbar_set_cmd \o <<pin, byte1, byte2>>, w)
    IN  Done("ledbar_set_bits", <<pin, state>>, "", x1, NoneResult)

ledbar_set_bits ==
    /\ Idle
    /\ \E pin \in PinSamples, state \in ValueSamples, w \in IoOutcomes :
         ledbar_set_bits_call(pin, state, w)

ledbar_get_bits_call(pin, w, rb, d, rk, block) ==
    LET x1 == write_i2c_block(Begin, ledbar_get_cmd \o <<pin, unused, unused>>, w)
        x2 == sleep(x1, 200)
        x3 == read_i2c_byte(x2, 4, rb, d)
        x4 == read_i2c_block(x3, 4, rk, block)
    IN  Done("ledbar_get_bits", <<pin>>, "", x4, IntResult(ledbar_get_bits_decode(block)))

ledbar_get_bits ==
    /\ Idle
    /\ \E pin \in PinSamples, w \in IoOutcomes, rb \in IoOutcomes, d \in DiscardSamples,
          rk \in IoOutcomes, block \in Blocks :
         ledbar_get_bits_call(pin, w, rb, d, rk, block)

---------------------------------------------------------------------------
(* Facade: 4 digit display                                                 *)

four_digit_init ==
    /\ Idle
    /\ \E pin \in PinSamples, w \in IoOutcomes :
         LET x1 == write_i2c_block(Begin, fourDigitInit_cmd \o <<pin, unused, unused>>, w)
         IN  Done("four_digit_init", <<pin>>, "", x1, NoneResult)

four_digit_number_call(pin, value, leading_zero, w) ==
    LET byte1 == LowByte(value)
        byte2 == HighBits(value)
        x1 == IF Truthy(leading_zero)
              THEN write_i2c_block(Begin, fourDigitValue_cmd \o <<pin, byte1, byte2>>, w)
              ELSE write_i2c_block(Begin, fourDigitValueZeros_cmd \o <<pin, byte1, byte2>>, w)
        x2 == sleep(x1, 50)
    IN  Done("four_digit_number", <<pin, value, leading_zero>>, "", x2, NoneResult)

four_digit_number ==
    /\ Idle
    /\ \E pin \in PinSamples, value \in ValueSamples, leading_zero \in {0, 1}, w \in IoOutcomes :
         four_digit_number_call(pin, value, leading_zero, w)

four_digit_brightness ==
    /\ Idle
    /\ \E pin \in PinSamples, brightness \in ValueSamples, w \in IoOutcomes :
         LET x1 == write_i2c_block(Begin, fourDigitBrightness_cmd \o <<pin, brightness, unused>>, w)
             x2 == sleep(x1, 50)
         IN  Done("four_digit_brightness", <<pin, brightness>>, "", x2, NoneResult)

four_digit_digit ==
    /\ Idle
    /\ \E pin \in PinSamples, segment \in ValueSamples, value \in ValueSamples, w \in IoOutcomes :
         LET x1 == write_i2c_block(Begin, fourDigitIndividualDigit_cmd \o <<pin, segment, value>>, w)
             x2 == sleep(x1, 50)
         IN  Done("four_digit_digit", <<pin, segment, value>>, "", x2, NoneResult)

four_digit_segment ==
    /\ Idle
    /\ \E pin \in PinSamples, segment \in ValueSamples, leds \in ValueSamples, w \in IoOutcomes :
         LET x1 == write_i2c_block(Begin, fourDigitIndividualLeds_cmd \o <<pin, segment, leds>>, w)
             x2 == sleep(x1, 50)
         IN  Done("four_digit_segment", <<pin, segment, leds>>, "", x2, NoneResult)

four_digit_score ==
    /\ Idle
    /\ \E pin \in PinSamples, left \in ValueSamples, right \in ValueSamples, w \in IoOutcomes :
         LET x1 == write_i2c_block(Begin, fourDigitScore_cmd \o <<pin, left, right>>, w)
             x2 == sleep(x1, 50)
         IN  Done("four_digit_score", <<pin, left, right>>, "", x2, NoneResult)

four_digit_monitor ==
    /\ Idle
    /\ \E pin \in PinSamples, analog \in ValueSamples, duration \in ValueSamples, w \in IoOutcomes :
         LET x1 == write_i2c_block(Begin, fourDigitAnalogRead_cmd \o <<pin, analog, duration>>, w)
             x2 == sleep(x1, duration * 1000 + 50)
         IN  Done("four_digit_monitor", <<pin, analog, duration>>, "", x2, NoneResult)

four_digit_on ==
    /\ Idle
    /\ \E pin \in PinSamples, w \in IoOutcomes :
         LET x1 == write_i2c_block(Begin, fourDigitAllOn_cmd \o <<pin, unused, unused>>, w)
             x2 == sleep(x1, 50)
         IN  Done("four_digit_on", <<pin>>, "", x2, NoneResult)

four_digit_off ==
    /\ Idle
    /\ \E pin \in PinSamples, w \in IoOutcomes :
         LET x1 == write_i2c_block(Begin, fourDigitAllOff_cmd \o <<pin, unused, unused>>, w)
             x2 == sleep(x1, 50)
         IN  Done("four_digit_off", <<pin>>, "", x2, NoneResult)

---------------------------------------------------------------------------
(* Facade: chainable RGB LED                                               *)

\* Fault: store_color reading a status byte back after the write.
store_color_read_back ==
    /\ Idle
    /\ \E red \in ValueSamples, green \in ValueSamples, blue \in ValueSamples,
          w \in IoOutcomes, r \in IoOutcomes, n \in DiscardSamples :
         LET x1 == write_i2c_block(Begin, storeColor_cmd \o <<red, green, blue>>, w)
             x2 == sleep(x1, 50)
             x3 == read_i2c_byte(x2, I2C_ADDRESS, r, n)
         IN  Done("store_color", <<red, green, blue>>, "", x3, NoneResult)

store_color ==
    /\ Idle
    /\ \E red \in ValueSamples, green \in ValueSamples, blue \in ValueSamples, w \in IoOutcomes :
         LET x1 == write_i2c_block(Begin, storeColor_cmd \o <<red, green, blue>>, w)
             x2 == sleep(x1, 50)
         IN  Done("store_color", <<red, green, blue>>, "", x2, NoneResult)

chainable_rgb_led_init ==
    /\ Idle
    /\ \E pin \in PinSamples, num_leds \in ValueSamples, w \in IoOutcomes :
         LET x1 == write_i2c_block(Begin, chainableRgbLedInit_cmd \o <<pin, num_leds, unused>>, w)
             x2 == sleep(x1, 50)
         IN  Done("chainable_rgb_led_init", <<pin, num_leds>>, "", x2, NoneResult)

chainable_rgb_led_test ==
    /\ Idle
    /\ \E pin \in PinSamples, num_leds \in ValueSamples, test_color \in ValueSamples, w \in IoOutcomes :
         LET x1 == write_i2c_block(Begin, chainableRgbLedTest_cmd \o <<pin, num_leds, test_color>>, w)
             x2 == sleep(x1, 50)
         IN  Done("chainable_rgb_led_test", <<pin, num_leds, test_color>>, "", x2, NoneResult)

chainable_rgb_led_pattern ==
    /\ Idle
    /\ \E pin \in PinSamples, pattern \in ValueSamples, which_led \in ValueSamples, w \in IoOutcomes :
         LET x1 == write_i2c_block(Begin, chainableRgbLedSetPattern_cmd \o <<pin, pattern, which_led>>, w)
             x2 == sleep(x1, 50)
         IN  Done("chainable_rgb_led_pattern", <<pin, pattern, which_led>>, "", x2, NoneResult)

chainable_rgb_led_modulo ==
    /\ Idle
    /\ \E pin \in PinSamples, offset \in ValueSamples, divisor \in ValueSamples, w \in IoOutcomes :
         LET x1 == write_i2c_block(Begin, chainableRgbLedSetModulo_cmd \o <<pin, offset, divisor>>, w)
             x2 == sleep(x1, 50)
         IN  Done("chainable_rgb_led_modulo", <<pin, offset, divisor>>, "", x2, NoneResult)

chainable_rgb_led_set_level ==
    /\ Idle
    /\ \E pin \in PinSamples, level \in ValueSamples, reverse \in ValueSamples, w \in IoOutcomes :
         LET x1 == write_i2c_block(Begin, chainableRgbLedSetLevel_cmd \o <<pin, level, reverse>>, w)
             x2 == sleep(x1, 50)
         IN  Done("chainable_rgb_led_set_level", <<pin, level, reverse>>, "", x2, NoneResult)

---------------------------------------------------------------------------
(* Facade: IR receiver, dust sensor, encoder, flow sensor                  *)

\* The except clause catches IOError only; the transport has already turned
\* every IOError into GrovePiException, which passes through it.
ir_read_signal ==
    /\ Idle
    /\ \E w \in IoOutcomes, rk \in IoOutcomes, block \in Blocks :
         LET x1 == write_i2c_block(Begin, ir_read_cmd \o <<unused, unused, unused>>, w)
             x2 == sleep(x1, 100)
             x3 == read_i2c_block(x2, I2C_ADDRESS, rk, block)
         IN  Done("ir_read_signal", <<>>, "", x3, ListResult(ir_read_signal_decode(block)))

ir_recv_pin ==
    /\ Idle
    /\ \E pin \in PinSamples, w \in IoOutcomes :
         LET x1 == write_i2c_block(Begin, ir_recv_pin_cmd \o <<pin, unused, unused>>, w)
         IN  Done("ir_recv_pin", <<pin>>, "", x1, NoneResult)

dust_sensor_en ==
    /\ Idle
    /\ \E w \in IoOutcomes :
         LET x1 == write_i2c_block(Begin, dust_sensor_en_cmd \o <<unused, unused, unused>>, w)
             x2 == sleep(x1, 200)
         IN  Done("dust_sensor_en", <<>>, "", x2, NoneResult)

dust_sensor_dis ==
    /\ Idle
    /\ \E w \in IoOutcomes :
         LET x1 == write_i2c_block(Begin, dust_sensor_dis_cmd \o <<unused, unused, unused>>, w)
             x2 == sleep(x1, 200)
         IN  Done("dust_sensor_dis", <<>>, "", x2, NoneResult)

dust_sensor_read ==
    /\ Idle
    /\ \E w \in IoOutcomes, rk \in IoOutcomes, block \in Blocks :
         LET data_back == Slice(block, 0, 4)
             x1 == write_i2c_block(Begin, dus_sensor_read_cmd \o <<unused, unused, unused>>, w)
             x2 == sleep(x1, 200)
             x3 == read_i2c_block(x2, I2C_ADDRESS, rk, block)
             x4 == sensor_header(x3, data_back)
         IN  Done("dust_sensor_read", <<>>, "", x4, ListResult(dust_sensor_read_decode(data_back)))

encoder_en ==
    /\ Idle
    /\ \E w \in IoOutcomes :
         LET x1 == write_i2c_block(Begin, encoder_en_cmd \o <<unused, unused, unused>>, w)
             x2 == sleep(x1, 200)
         IN  Done("encoder_en", <<>>, "", x2, NoneResult)

encoder_dis ==
    /\ Idle
    /\ \E w \in IoOutcomes :
         LET x1 == write_i2c_block(Begin, encoder_dis_cmd \o <<unused, unused, unused>>, w)
             x2 == sleep(x1, 200)
         IN  Done("encoder_dis", <<>>, "", x2, NoneResult)

encoder_read ==
    /\ Idle
    /\ \E w \in IoOutcomes, rk \in IoOutcomes, block \in Blocks :
         LET data_back == Slice(block, 0, 2)
             x1 == write_i2c_block(Begin, encoder_read_cmd \o <<unused, unused, unused>>, w)
             x2 == sleep(x1, 200)
             x3 == read_i2c_block(x2, I2C_ADDRESS, rk, block)
             x4 == sensor_header(x3, data_back)
         IN  Done("encoder_read", <<>>, "", x4, ListResult(encoder_read_decode(data_back)))

flow_disable ==
    /\ Idle
    /\ \E w \in IoOutcomes :
         LET x1 == write_i2c_block(Begin, flow_disable_cmd \o <<unused, unused, unused>>, w)
             x2 == sleep(x1, 200)
         IN  Done("flow_disable", <<>>, "", x2, NoneResult)

flow_enable ==
    /\ Idle
    /\ \E w \in IoOutcomes :
         LET x1 == write_i2c_block(Begin, flow_en_cmd \o <<unused, unused, unused>>, w)
             x2 == sleep(x1, 200)
         IN  Done("flow_enable", <<>>, "", x2, NoneResult)

flow_read ==
    /\ Idle
    /\ \E w \in IoOutcomes, rk \in IoOutcomes, block \in Blocks :
         LET data_back == Slice(block, 0, 3)
             x1 == write_i2c_block(Begin, flow_read_cmd \o <<unused, unused, unused>>, w)
             x2 == sleep(x1, 200)
             x3 == read_i2c_block(x2, I2C_ADDRESS, rk, block)
             x4 == sensor_header(x3, data_back)
         IN  Done("flow_read", <<>>, "", x4, ListResult(flow_read_decode(data_back)))

---------------------------------------------------------------------------
(* Vocabulary of the properties                                            *)

Called == ~Idle

Returned == Called /\ outcome = NoExc

ReadOps ==
    {"digital_read", "analog_read", "temp", "ultrasonic_read", "version", "acc_xyz",
     "rtc_get_time", "dht", "ledbar_get_bits", "ir_read_signal", "dust_sensor_read",
     "encoder_read", "flow_read"}

\* The call read a response block: the block is the data of that event.
GotBlock == \E i \in DOMAIN trace : trace[i].kind = "read_block" /\ trace[i].io = "ok"

TheBlock == trace[CHOOSE i \in DOMAIN trace : trace[i].kind = "read_block"].data

\* The bus primitives of the trace, sleeps left out.
IsBusEvent(e) == e.kind # "sleep"

BusEvents == SelectSeq(trace, IsBusEvent)

\* Opcode of each operation as the firmware documents it (Command Format).
OpcodeOf ==
    [ digital_read |-> {1}, digital_write |-> {2}, analog_read |-> {3}, temp |-> {3},
      analog_write |-> {4}, pin_mode |-> {5}, ultrasonic_read |-> {7}, version |-> {8},
      acc_xyz |-> {20}, rtc_get_time |-> {30}, dht |-> {40},
      ledbar_init |-> {50}, ledbar_orientation |-> {51}, ledbar_set_level |-> {52},
      ledbar_set_led |-> {53}, ledbar_toggle_led |-> {54}, ledbar_set_bits |-> {55},
      ledbar_get_bits |-> {56},
      four_digit_init |-> {70}, four_digit_brightness |-> {71}, four_digit_number |-> {72, 73},
      four_digit_digit |-> {74}, four_digit_segment |-> {75}, four_digit_score |-> {76},
      four_digit_monitor |-> {77}, four_digit_on |-> {78}, four_digit_off |-> {79},
      store_color |-> {90}, chainable_rgb_led_init |-> {91}, chainable_rgb_led_test |-> {92},
      chainable_rgb_led_pattern |-> {93}, chainable_rgb_led_modulo |-> {94},
      chainable_rgb_led_set_level |-> {95},
      ir_read_signal |-> {21}, ir_recv_pin |-> {22},
      dust_sensor_read |-> {10}, dust_sensor_en |-> {14}, dust_sensor_dis |-> {15},
      encoder_read |-> {11}, encoder_en |-> {16}, encoder_dis |-> {17},
      flow_read |-> {12}, flow_disable |-> {13}, flow_enable |-> {18} ]

\* The parameters the call puts in the frame, in order: its arguments, except
\* that pin_mode sends the mode as one bit, the two-byte operations send
\* (pin, low, high), and four_digit_number's flag only selects the opcode.
FrameParams ==
    CASE op = "pin_mode" -> <<args[1], IF sarg = "OUTPUT" THEN 1 ELSE 0>>
      [] op \in {"ledbar_set_bits", "four_digit_number"} ->
            <<args[1], args[2] % 256, args[2] \div 256>>
      [] OTHER -> args

---------------------------------------------------------------------------
(* C1: frames                                                              *)

\* C1: every frame handed to write_i2c_block has exactly 4 elements: the
\* opcode of the operation, then its parameters in order, then zeros in the
\* unused trailing slots, for every operation and every argument value.
C1_FrameShape ==
    \A i \in DOMAIN trace :
        trace[i].kind = "write" =>
            /\ Len(trace[i].data) = 4
            /\ trace[i].data[1] \in OpcodeOf[op]
            /\ \A k \in 1 .. 3 :
                  trace[i].data[k + 1] = IF k <= Len(FrameParams) THEN FrameParams[k] ELSE 0

\* A two-parameter frame with one zero-padded slot, and a three-parameter
\* frame, have been written.
C1_Witness ==
    /\ op = "ledbar_toggle_led"
    /\ args = <<3, 15>>
    /\ Len(trace) = 1
    /\ trace[1] = Ev("write", 4, <<54, 3, 15, 0>>, "ok")

---------------------------------------------------------------------------
(* C3: accelerometer axis decode                                           *)

\* C3 (as stated): each axis byte b of acc_xyz decodes to b when b <= 32 and
\* to b - 224 when b > 32.
C3_AsStated ==
    (op = "acc_xyz" /\ Returned) =>
        \A k \in 1 .. 3 :
            LET b == TheBlock[k + 1]
            IN  result.ints[k] = IF b <= 32 THEN b ELSE b - 224

\* C3 (amended): each axis byte b of acc_xyz, taken from block bytes 1, 2, 3,
\* decodes to b when b <= 32 and to 224 - b, the negation of b - 224, when
\* b > 32: byte 224 gives 0 and byte 255 gives -31.
C3_AxisDecode ==
    (op = "acc_xyz" /\ Returned) =>
        /\ result.kind = "tuple"
        /\ Len(result.ints) = 3
        /\ \A k \in 1 .. 3 :
              LET b == TheBlock[k + 1]
              IN  result.ints[k] = IF b <= 32 THEN b ELSE 224 - b

\* acc_xyz returned with axis bytes on both sides of the threshold: 32, 255, 33.
C3_Witness ==
    /\ op = "acc_xyz"
    /\ Returned
    /\ TheBlock[2] = 32 /\ TheBlock[3] = 255 /\ TheBlock[4] = 33
    /\ result.ints = <<32, -31, 191>>

---------------------------------------------------------------------------
(* C4: sentinel detection                                                  *)

SentinelRaisingOps == {"dust_sensor_read", "encoder_read", "flow_read"}

\* Index (0-based) of the header byte of each sentinel-bearing operation.
HeaderIndex == IF op = "ir_read_signal" THEN 1 ELSE 0

\* C4 (as stated): in dust_sensor_read, encoder_read, flow_read and
\* ir_read_signal a header byte of 255 makes the call raise GrovePiException
\* and return nothing; any other header byte makes it return a value.
C4_AsStated ==
    (op \in SentinelRaisingOps \cup {"ir_read_signal"} /\ GotBlock) =>
        IF At(TheBlock, HeaderIndex) = 255
        THEN outcome.type = "GrovePiException" /\ result = NoResult
        ELSE Returned /\ result.kind = "list"

\* C4 (amended): in dust_sensor_read, encoder_read and flow_read a header
\* byte (byte 0) of 255 makes the call raise GrovePiException and return
\* nothing, whatever the other bytes are, and any other header byte makes it
\* return a parsed list; ir_read_signal never raises on its header (byte 1):
\* 255 makes it return the list of 21 elements -1, any other value the bytes.
C4_Sentinel ==
    /\ (op \in SentinelRaisingOps /\ GotBlock) =>
          IF At(TheBlock, 0) = 255
          THEN outcome = GrovePiException("none", "") /\ result = NoResult
          ELSE Returned /\ result.kind = "list" /\ result.ints[1] = At(TheBlock, 0)
    /\ (op = "ir_read_signal" /\ GotBlock) =>
          /\ Returned
          /\ result.kind = "list"
          /\ At(TheBlock, 1) = 255 => result.ints = [i \in 1 .. 21 |-> -1]
          /\ At(TheBlock, 1) # 255 => result.ints = Slice(TheBlock, 0, 21)

\* flow_read saw header 255 with non-zero payload bytes and raised.
C4_Witness ==
    /\ op = "flow_read"
    /\ GotBlock
    /\ TheBlock[1] = 255 /\ TheBlock[2] = 15 /\ TheBlock[3] = 1
    /\ outcome.type = "GrovePiException"

---------------------------------------------------------------------------
(* C5: thermistor edge cases                                               *)

\* C5: temp fails with GrovePiException (InvalidReading), and with no other
\* error, when analog_read returns exactly 0 or exactly 1023.
C5_InvalidReading ==
    (op = "temp" /\ GotBlock /\ At(TheBlock, 1) * 256 + At(TheBlock, 2) \in {0, 1023}) =>
        outcome.type = "GrovePiException"

\* temp(2) raised ZeroDivisionError on a reading of 0, or ValueError on 1023.
C5_Escapes ==
    /\ op = "temp"
    /\ GotBlock
    /\ \/ At(TheBlock, 1) * 256 + At(TheBlock, 2) = 0 /\ outcome.type = "ZeroDivisionError"
       \/ At(TheBlock, 1) * 256 + At(TheBlock, 2) = 1023 /\ outcome.type = "ValueError"

---------------------------------------------------------------------------
(* C6: bus failures propagate, nothing is retried                          *)

\* The bus primitives each operation issues, in order.
StepsOf ==
    IF op = "digital_read" THEN <<"write", "read_byte">>
    ELSE IF op \in {"analog_read", "temp", "ultrasonic_read", "version", "acc_xyz",
                    "rtc_get_time", "dht", "ledbar_get_bits"}
         THEN <<"write", "read_byte", "read_block">>
    ELSE IF op \in {"ir_read_signal", "dust_sensor_read", "encoder_read", "flow_read"}
         THEN <<"write", "read_block">>
    ELSE <<"write">>

\* C6: when a transport primitive fails with an I/O error, the call ends with
\* a GrovePiException carrying that error, issues no bus primitive after the
\* failure and does not re-issue the failed one; in every call each step of
\* the operation's sequence is attempted at most once, in order.
C6_BusErrorPropagates ==
    Called =>
        /\ Len(BusEvents) <= Len(StepsOf)
        /\ \A i \in DOMAIN BusEvents : BusEvents[i].kind = StepsOf[i]
        /\ \A i \in DOMAIN trace :
              trace[i].io # "ok" =>
                  /\ i = Len(trace)
                  /\ outcome = GrovePiException("IOError", trace[i].io)
                  /\ result = NoResult
        /\ outcome.argkind = "IOError" =>
              /\ trace # <<>>
              /\ trace[Len(trace)].io = outcome.arg

\* analog_read: the write and the byte read succeeded, the block read failed.
C6_Witness ==
    /\ op = "analog_read"
    /\ Len(BusEvents) = 3
    /\ BusEvents[3].kind = "read_block"
    /\ BusEvents[3].io = "ETIMEDOUT"
    /\ outcome = GrovePiException("IOError", "ETIMEDOUT")

---------------------------------------------------------------------------
(* C7: the failure kinds are told apart                                    *)

\* A transport primitive of the call failed.
BusFailed == \E i \in DOMAIN trace : trace[i].io # "ok"

\* The firmware answered "no data": header byte 255 in a sensor read.
SentinelSeen == op \in SentinelRaisingOps /\ GotBlock /\ At(TheBlock, 0) = 255

\* The four bytes are an IEEE-754 single NaN (exponent all ones, fraction not 0).
NaNBytes(b) ==
    /\ b[4] % 128 = 127
    /\ b[3] >= 128
    /\ (b[3] % 128 # 0 \/ b[2] # 0 \/ b[1] # 0)

\* The DHT block carried a not-a-number temperature or humidity.
NaNSeen ==
    /\ op = "dht"
    /\ GotBlock
    /\ Len(TheBlock) >= 9
    /\ NaNBytes(SubSeq(TheBlock, 2, 5)) \/ NaNBytes(SubSeq(TheBlock, 6, 9))

\* C7: a transport failure, a no-data sentinel and a not-a-number reading
\* end the call with different failures, so the caller can tell which one
\* happened: all three are GrovePiException, told apart by its argument
\* (the caught IOError, no argument, the string "NaN").
C7_KindsDistinct ==
    Called =>
        /\ BusFailed <=> (outcome.type = "GrovePiException" /\ outcome.argkind = "IOError")
        /\ SentinelSeen <=> (outcome.type = "GrovePiException" /\ outcome.argkind = "none")
        /\ NaNSeen <=> outcome = GrovePiException("str", "NaN")

\* dht read a block whose humidity is NaN and raised GrovePiException("NaN").
C7_Witness ==
    /\ op = "dht"
    /\ GotBlock
    /\ Len(TheBlock) = 9
    /\ SubSeq(TheBlock, 2, 5) = <<0, 0, 204, 65>>
    /\ SubSeq(TheBlock, 6, 9) = <<0, 0, 192, 127>>
    /\ outcome = GrovePiException("str", "NaN")

---------------------------------------------------------------------------
(* C8: value or library error                                              *)

\* C8: every call either returns a decoded value after the full sequence or
\* fails with GrovePiException; no other kind of failure escapes.
C8_NoForeignFailure ==
    Called => outcome.type \in {"none", "GrovePiException"}

\* An exception that is not GrovePiException escaped: struct.error from dht
\* on the 5-byte response block.
C8_Escapes ==
    /\ op = "dht"
    /\ GotBlock
    /\ Len(TheBlock) = 5
    /\ outcome.type = "struct.error"

---------------------------------------------------------------------------
(* C9: write, delay, read                                                  *)

\* Settle delay of each read operation, in milliseconds.
SettleMs ==
    IF op \in {"digital_read", "analog_read", "temp", "version", "acc_xyz",
               "rtc_get_time", "ir_read_signal"} THEN 100
    ELSE IF op \in {"ultrasonic_read", "ledbar_get_bits", "dust_sensor_read",
                    "encoder_read", "flow_read"} THEN 200
    ELSE IF op = "dht" THEN 600
    ELSE 0

IsRead(e) == e.kind \in {"read_byte", "read_block"}

\* Total sleep among trace[lo .. hi].
RECURSIVE SleptMs(_, _)
SleptMs(lo, hi) ==
    IF lo > hi THEN 0
    ELSE (IF trace[hi].kind = "sleep" THEN trace[hi].data[1] ELSE 0) + SleptMs(lo, hi - 1)

\* C9: in every read operation the command frame is written before any read
\* is issued, and at least the settle delay of the operation (0.1 s, 0.2 s or
\* 0.6 s) elapses between that write and the first read of the call.
C9_WriteDelayRead ==
    \A j \in DOMAIN trace :
        IsRead(trace[j]) =>
            /\ op \in ReadOps
            /\ trace[1].kind = "write"
            /\ trace[1].io = "ok"
            /\ \A i \in 1 .. j : trace[i].kind = "write" => i = 1
            /\ SleptMs(2, j - 1) >= SettleMs

\* dht read its block 0.6 s after the write.
C9_Witness ==
    /\ op = "dht"
    /\ GotBlock
    /\ Len(trace) >= 4
    /\ trace[1].kind = "write"
    /\ trace[2] = Ev("sleep", 0, <<600>>, "ok")
    /\ trace[3].kind = "read_byte"

---------------------------------------------------------------------------
(* C10: digital_read round trip                                            *)

\* C10: digital_read(pin) writes the frame [1, pin, 0, 0] once, sleeps 0.1 s,
\* reads exactly one single byte and no block, and returns that byte
\* unchanged.
C10_DigitalRead ==
    op = "digital_read" =>
        /\ Len(trace) >= 1
        /\ trace[1].kind = "write" /\ trace[1].data = <<1, args[1], 0, 0>>
        /\ \A i \in DOMAIN trace : trace[i].kind # "read_block"
        /\ Returned =>
              /\ Len(trace) = 3
              /\ trace[2] = Ev("sleep", 0, <<100>>, "ok")
              /\ trace[3].kind = "read_byte"
              /\ result = IntResult(trace[3].data[1])

\* digital_read(2) read back the byte 1 and returned 1.
C10_Witness ==
    /\ op = "digital_read"
    /\ args = <<2>>
    /\ Len(trace) = 3
    /\ trace[3] = Ev("read_byte", 4, <<1>>, "ok")
    /\ result = IntResult(1)

---------------------------------------------------------------------------
(* Specification                                                           *)

Init ==
    /\ op = "none"
    /\ args = <<>>
    /\ sarg = ""
    /\ trace = <<>>
    /\ outcome = NoExc
    /\ result = NoResult
    /\ pc = "none"

\* The caller has taken the value or the exception, or the command-line
\* process has ended.  Frames, blocks and results are transient: nothing of a
\* call survives it but the open bus.
NextCall ==
    /\ ~Idle
    /\ pc \in {"none", "exit"}
    /\ op' = "none"
    /\ args' = <<>>
    /\ sarg' = ""
    /\ trace' = <<>>
    /\ outcome' = NoExc
    /\ result' = NoResult
    /\ pc' = "none"

Next ==
    \/ digital_read
    \/ digital_write
    \/ pin_mode
    \/ analog_read
    \/ analog_write
    \/ temp
    \/ ultrasonic_read
    \/ version
    \/ acc_xyz
    \/ rtc_get_time
    \/ dht
    \/ ledbar_init
    \/ ledbar_orientation
    \/ ledbar_set_level
    \/ ledbar_set_led
    \/ ledbar_toggle_led
    \/ ledbar_set_bits
    \/ ledbar_get_bits
    \/ four_digit_init
    \/ four_digit_number
    \/ four_digit_brightness
    \/ four_digit_digit
    \/ four_digit_segment
    \/ four_digit_score
    \/ four_digit_monitor
    \/ four_digit_on
    \/ four_digit_off
    \/ store_color
    \/ chainable_rgb_led_init
    \/ chainable_rgb_led_test
    \/ chainable_rgb_led_pattern
    \/ chainable_rgb_led_modulo
    \/ chainable_rgb_led_set_level
    \/ ir_read_signal
    \/ ir_recv_pin
    \/ dust_sensor_en
    \/ dust_sensor_dis
    \/ dust_sensor_read
    \/ encoder_en
    \/ encoder_dis
    \/ encoder_read
    \/ flow_disable
    \/ flow_enable
    \/ flow_read
    \/ NextCall

Spec == Init /\ [][Next]_vars

---------------------------------------------------------------------------
(* Round trip of a two-byte value: a set operation splits it into the      *)
(* frame, the firmware hands the two bytes back in bytes 1 and 2 of the    *)
(* response block of the next read operation.                              *)

\* The last call wrote a two-byte value to the bus.
WroteWord == op \in {"ledbar_set_bits", "four_digit_number"} /\ outcome = NoExc

\* The response block carrying the low and high byte of the frame just written.
EchoBlock == <<0, trace[1].data[3], trace[1].data[4], 0, 0>>

SetBits ==
    /\ Idle
    /\ \E state \in 0 .. MaxWord : ledbar_set_bits_call(3, state, "ok")

SetNumber ==
    /\ Idle
    /\ \E value \in 0 .. MaxWord : four_digit_number_call(3, value, 1, "ok")

GetAnalog ==
    /\ WroteWord
    /\ analog_read_call(args[1], "ok", "ok", 0, "ok", EchoBlock)

GetUltrasonic ==
    /\ WroteWord
    /\ ultrasonic_read_call(args[1], "ok", "ok", 0, "ok", EchoBlock)

GetBits ==
    /\ WroteWord
    /\ ledbar_get_bits_call(args[1], "ok", "ok", 0, "ok", EchoBlock)

NextRoundTrip ==
    \/ SetBits
    \/ SetNumber
    \/ GetAnalog
    \/ GetUltrasonic
    \/ GetBits
    \/ NextCall

SpecRoundTrip == Init /\ [][NextRoundTrip]_vars

---------------------------------------------------------------------------
(* C2: composite 16-bit decode against the write-side split                *)

CompositeReaders == {"analog_read", "ultrasonic_read", "ledbar_get_bits"}

\* C2 (as stated): for every v in 0..65535 split as the write operations do
\* (low = v & 255, high = v >> 8), a response block with low in byte 1 and
\* high in byte 2 makes analog_read, ultrasonic_read and ledbar_get_bits
\* return v.
C2_AsStated ==
    [][(WroteWord /\ op' \in CompositeReaders) => result' = IntResult(args[2])]_vars

\* C2 (amended): for every v in 0..65535 split as low = v & 255, high = v >> 8
\* and carried with low in block byte 1 and high in block byte 2,
\* ledbar_get_bits returns v; analog_read and ultrasonic_read take byte 1 as
\* the high byte and return low * 256 + high.
C2_RoundTrip ==
    [][(WroteWord /\ op' \in CompositeReaders) =>
          LET v    == args[2]
              low  == v % 256
              high == v \div 256
          IN  /\ trace[1].data[3] = low /\ trace[1].data[4] = high
              /\ trace'[4].data[2] = low /\ trace'[4].data[3] = high
              /\ op' = "ledbar_get_bits" => result' = IntResult(v)
              /\ op' \in {"analog_read", "ultrasonic_read"} =>
                    result' = IntResult(low * 256 + high)]_vars

\* ledbar_get_bits decoded the block carrying the split of 1023 = 0x03FF.
C2_Witness ==
    /\ op = "ledbar_get_bits"
    /\ Returned
    /\ TheBlock = <<0, 255, 3, 0, 0>>
    /\ result = IntResult(1023)


---------------------------------------------------------------------------
(* C11: ledbar_get_bits                                                    *)

\* C11: ledbar_get_bits(pin) writes the frame [56, pin, 0, 0], waits 0.2 s,
\* reads the response block and returns block[1] ^ (block[2] << 8), which is
\* block[1] + 256 * block[2] for all bytes; no other byte of the block and
\* not the discarded single byte enters the result.
C11_LedbarGetBits ==
    op = "ledbar_get_bits" =>
        /\ Len(trace) >= 1
        /\ trace[1].kind = "write" /\ trace[1].data = <<56, args[1], 0, 0>>
        /\ GotBlock =>
              /\ Returned
              /\ Len(trace) = 4
              /\ trace[2] = Ev("sleep", 0, <<200>>, "ok")
              /\ trace[3].kind = "read_byte"
              /\ trace[4].kind = "read_block"
              /\ result = IntResult(At(TheBlock, 1) + 256 * At(TheBlock, 2))

\* ledbar_get_bits(3) read a block [255, 0x0F, 0x00, 255, 255] after
\* discarding the byte 255, and returned 15.
C11_Witness ==
    /\ op = "ledbar_get_bits"
    /\ args = <<3>>
    /\ Len(trace) = 4
    /\ trace[3].data = <<255>>
    /\ TheBlock = <<255, 15, 0, 255, 255>>
    /\ result = IntResult(15)


---------------------------------------------------------------------------
(* C12: parameter truncation                                               *)

\* C12: for every operation and every integer argument, every element of a
\* frame handed to the transport is in 0..255, each parameter slot holding
\* the low 8 bits of the value assigned to it.
C12_LowEightBits ==
    \A i \in DOMAIN trace :
        trace[i].kind = "write" =>
            \A k \in 1 .. 3 :
                /\ trace[i].data[k + 1] \in 0 .. 255
                /\ trace[i].data[k + 1] =
                      (IF k <= Len(FrameParams) THEN FrameParams[k] ELSE 0) % 256

\* ledbar_set_bits(2, 65536) handed the frame [55, 2, 0, 256] to the transport.
C12_Unmasked ==
    /\ op = "ledbar_set_bits"
    /\ args = <<2, 65536>>
    /\ Len(trace) = 1
    /\ trace[1] = Ev("write", 4, <<55, 2, 0, 256>>, "ok")


---------------------------------------------------------------------------
(* C13: fire-and-forget set operations                                     *)

SetOps ==
    {"digital_write", "analog_write",
     "ledbar_init", "ledbar_orientation", "ledbar_set_level", "ledbar_set_led",
     "ledbar_toggle_led", "ledbar_set_bits",
     "four_digit_init", "four_digit_number", "four_digit_brightness", "four_digit_digit",
     "four_digit_segment", "four_digit_score", "four_digit_monitor", "four_digit_on",
     "four_digit_off",
     "store_color", "chainable_rgb_led_init", "chainable_rgb_led_test",
     "chainable_rgb_led_pattern", "chainable_rgb_led_modulo", "chainable_rgb_led_set_level"}

\* C13: every display/LED set operation and digital_write / analog_write
\* performs exactly one frame write and no byte read or block read, and
\* returns no value.
C13_FireAndForget ==
    op \in SetOps =>
        /\ Cardinality({i \in DOMAIN trace : trace[i].kind = "write"}) = 1
        /\ trace[1].kind = "write"
        /\ \A i \in DOMAIN trace : ~IsRead(trace[i])
        /\ result \in {NoneResult, NoResult}
        /\ Returned => result = NoneResult

\* four_digit_score(2, 15, 1) wrote its frame, slept and returned None.
C13_Witness ==
    /\ op = "four_digit_score"
    /\ args = <<2, 15, 1>>
    /\ Returned
    /\ trace = <<Ev("write", 4, <<76, 2, 15, 1>>, "ok"), Ev("sleep", 0, <<50>>, "ok")>>
    /\ result = NoneResult


---------------------------------------------------------------------------
(* C14: pin_mode                                                           *)

\* C14: pin_mode(pin, "OUTPUT") writes exactly one frame [5, pin, 1, 0] and
\* pin_mode(pin, "INPUT") writes exactly one frame [5, pin, 0, 0]; neither
\* reads from the bus.
C14_PinMode ==
    (op = "pin_mode" /\ sarg \in {"OUTPUT", "INPUT"}) =>
        /\ Len(trace) = 1
        /\ trace[1].kind = "write"
        /\ trace[1].addr = 4
        /\ sarg = "OUTPUT" => trace[1].data = <<5, args[1], 1, 0>>
        /\ sarg = "INPUT" => trace[1].data = <<5, args[1], 0, 0>>

\* pin_mode(3, "OUTPUT") wrote [5, 3, 1, 0] and returned.
C14_Witness ==
    /\ op = "pin_mode"
    /\ sarg = "OUTPUT"
    /\ Returned
    /\ trace = <<Ev("write", 4, <<5, 3, 1, 0>>, "ok")>>


---------------------------------------------------------------------------
(* C15: four_digit_number                                                  *)

\* C15: four_digit_number(pin, value, leading_zero) writes the command "set
\* numeric value with leading zeros" (opcode 73) when leading_zero is true
\* and "set numeric value without leading zeros" (opcode 72) when it is
\* false; the frame is [opcode, pin, value & 255, value >> 8].
C15_OpcodeByFlag ==
    op = "four_digit_number" =>
        /\ Len(trace) >= 1
        /\ trace[1].kind = "write"
        /\ trace[1].data =
              <<IF args[3] # 0 THEN 73 ELSE 72, args[1], args[2] % 256, args[2] \div 256>>

\* four_digit_number(2, 1023, 1), leading zeros asked for, wrote opcode 72.
C15_Inverted ==
    /\ op = "four_digit_number"
    /\ args = <<2, 1023, 1>>
    /\ Returned
    /\ trace[1] = Ev("write", 4, <<72, 2, 255, 3>>, "ok")


---------------------------------------------------------------------------
(* C16: ir_read_signal                                                     *)

\* The first 21 bytes of the block (all of it when it is shorter).
First21 == [i \in 1 .. (IF Len(TheBlock) < 21 THEN Len(TheBlock) ELSE 21) |-> TheBlock[i]]

\* C16: ir_read_signal() writes the frame [21, 0, 0, 0], waits 0.1 s, reads
\* one block and takes its first 21 bytes; when byte 1 of the slice is 255 it
\* returns a list of exactly 21 elements -1, otherwise the slice unchanged.
C16_IrReadSignal ==
    op = "ir_read_signal" =>
        /\ Len(trace) >= 1
        /\ trace[1].kind = "write" /\ trace[1].data = <<21, 0, 0, 0>>
        /\ GotBlock =>
              /\ Returned
              /\ Len(trace) = 3
              /\ trace[2] = Ev("sleep", 0, <<100>>, "ok")
              /\ trace[3].kind = "read_block"
              /\ result.kind = "list"
              /\ First21[2] = 255 =>
                    Len(result.ints) = 21 /\ \A i \in 1 .. 21 : result.ints[i] = -1
              /\ First21[2] # 255 => result.ints = First21

\* ir_read_signal read a 32-byte block without the sentinel and returned its
\* first 21 bytes.
C16_Witness ==
    /\ op = "ir_read_signal"
    /\ Returned
    /\ Len(TheBlock) = 32
    /\ TheBlock[2] = 102
    /\ Len(result.ints) = 21
    /\ result.ints[2] = 102


---------------------------------------------------------------------------
(* C17: little-endian sensor payloads                                      *)

\* C17: when header byte b0 is not 255, dust_sensor_read returns
\* [b0, b1 + 256 * b2 + 65536 * b3], flow_read returns [b0, b1 + 256 * b2]
\* and encoder_read returns [b0, b1], b0..b3 being bytes 0..3 of the response
\* block; no byte beyond the slice of the operation enters the result.
C17_LittleEndian ==
    (op \in SentinelRaisingOps /\ GotBlock /\ TheBlock[1] # 255) =>
        LET b0 == TheBlock[1]
            b1 == TheBlock[2]
            b2 == TheBlock[3]
            b3 == TheBlock[4]
        IN  /\ Returned
            /\ op = "dust_sensor_read" =>
                  result = ListResult(<<b0, b1 + 256 * b2 + 65536 * b3>>)
            /\ op = "flow_read" => result = ListResult(<<b0, b1 + 256 * b2>>)
            /\ op = "encoder_read" => result = ListResult(<<b0, b1>>)

\* flow_read decoded the block [7, 1, 3, 33, 255] to [7, 769].
C17_Witness ==
    /\ op = "flow_read"
    /\ Returned
    /\ TheBlock = <<7, 1, 3, 33, 255>>
    /\ result = ListResult(<<7, 769>>)


---------------------------------------------------------------------------
(* C18: dht on a malformed block                                           *)

\* C18: whenever the block returned to dht does not hold the two 4-byte
\* float spans at indices 1..4 and 5..8 (the 5-byte response block, any block
\* shorter than 9 bytes), the call fails with GrovePiException
\* (NoDataAvailable), with no other kind of failure, and returns no value.
C18_MalformedBlock ==
    (op = "dht" /\ GotBlock /\ Len(TheBlock) < 9) =>
        /\ outcome.type = "GrovePiException"
        /\ result = NoResult

\* dht read a 7-byte block and struct.error escaped.
C18_StructError ==
    /\ op = "dht"
    /\ args = <<3, 1>>
    /\ GotBlock
    /\ Len(TheBlock) = 7
    /\ outcome = Exc("struct.error", "str", "unpack requires a buffer of 4 bytes")


---------------------------------------------------------------------------
(* C19: pin_mode with an unrecognised mode                                 *)

\* C19: pin_mode(pin, mode) with a mode other than "OUTPUT" and "INPUT"
\* performs no bus write and no bus read and returns normally, without an
\* error: the pin direction is left as it was.
C19_UnknownModeIgnored ==
    (op = "pin_mode" /\ sarg \notin {"OUTPUT", "INPUT"}) =>
        /\ trace = <<>>
        /\ outcome = NoExc
        /\ result = NoneResult

\* pin_mode(2, "output") returned without touching the bus.
C19_Witness ==
    /\ op = "pin_mode"
    /\ args = <<2>>
    /\ sarg = "output"
    /\ trace = <<>>
    /\ Returned


---------------------------------------------------------------------------
(* Command-line tool (grovepi-cli.py)                                      *)
(*                                                                         *)
(* The script runs main(args) as a process.  main is modelled step by      *)
(* step, one step per bus primitive or sleep of the facade functions it    *)
(* calls, because sigterm_handler (installed for SIGINT and SIGTERM        *)
(* before main is called) can run between any two of them.                 *)
(* args = <<digital, analog, read, write, pin, value>>; pc is the next     *)
(* step, "exit" once the process has ended: with status 0 when outcome is  *)
(* NoExc, else with the status of the SystemExit in outcome.               *)

\* The facade functions of one bus write, as steps continuing an execution x.
pin_mode_steps(x, pin, mode, w) ==
    IF mode = "OUTPUT" THEN write_i2c_block(x, pMode_cmd \o <<pin, 1, unused>>, w)
    ELSE IF mode = "INPUT" THEN write_i2c_block(x, pMode_cmd \o <<pin, 0, unused>>, w)
    ELSE x

digital_write_steps(x, pin, value, w) ==
    write_i2c_block(x, dWrite_cmd \o <<pin, value, unused>>, w)

analog_write_steps(x, pin, value, w) ==
    write_i2c_block(x, aWrite_cmd \o <<pin, value, unused>>, w)

\* What main printed: the value read (stdout) or the exception (stderr).
StdoutResult(n) == [kind |-> "stdout", ints |-> <<n>>, str |-> "", floats |-> <<>>]
StderrResult(s) == [kind |-> "stderr", ints |-> <<>>, str |-> s, floats |-> <<>>]

\* A flag of the argument parser as 0 / 1.
Flag(b) == IF b THEN 1 ELSE 0

\* sys.exit(status)
SystemExit(status) == Exc("SystemExit", "int", status)

\* The process is between its start and its end.
Running == op = "main" /\ pc \notin {"none", "exit"}

\* The execution of main so far.
Cur == [trace |-> trace, exc |-> NoExc]

\* A step of main left execution x: on to step `next`, or, when it raised,
\* out of the try block.
main_goes(x, next) ==
    /\ trace' = x.trace
    /\ outcome' = x.exc
    /\ pc' = IF x.exc = NoExc THEN next ELSE "except"
    /\ UNCHANGED <<op, args, sarg, result>>

\* The script starts: handlers installed, arguments parsed, main(args) called.
\* The parser's two required mutually exclusive groups make exactly one of
\* digital / analog and exactly one of read / write true.
main ==
    /\ Idle
    /\ \E digital \in BOOLEAN, analog \in BOOLEAN, read \in BOOLEAN, write \in BOOLEAN,
          pin \in PinSamples, value \in ValueSamples :
         /\ digital # analog
         /\ read # write
         /\ op' = "main"
         /\ args' = <<Flag(digital), Flag(analog), Flag(read), Flag(write), pin, value>>
         /\ sarg' = ""
         /\ trace' = <<>>
         /\ outcome' = NoExc
         /\ result' = NoResult
         /\ pc' = "pin_mode"

\* Fault: main going on to the data command after pin_mode failed.
main_pin_mode_ignores_error ==
    /\ op = "main" /\ pc = "pin_mode"
    /\ \E w \in IoOutcomes :
         LET x == pin_mode_steps(Cur, args[5], IF args[4] = 1 THEN "OUTPUT" ELSE "INPUT", w)
         IN  main_goes([x EXCEPT !.exc = NoExc],
                       IF args[1] = 1 /\ args[4] = 1 THEN "digital_write"
                       ELSE IF args[1] = 1 THEN "digital_read_1"
                       ELSE IF args[4] = 1 THEN "analog_write"
                       ELSE "analog_read_1")

\* The branch of main's if / elif chain is taken and its pin_mode call made.
main_pin_mode ==
    /\ op = "main" /\ pc = "pin_mode"
    /\ \E w \in IoOutcomes :
         IF args[1] = 1 /\ args[4] = 1
         THEN main_goes(pin_mode_steps(Cur, args[5], "OUTPUT", w), "digital_write")
         ELSE IF args[1] = 1 /\ args[3] = 1
         THEN main_goes(pin_mode_steps(Cur, args[5], "INPUT", w), "digital_read_1")
         ELSE IF args[2] = 1 /\ args[4] = 1
         THEN main_goes(pin_mode_steps(Cur, args[5], "OUTPUT", w), "analog_write")
         ELSE IF args[2] = 1 /\ args[3] = 1
         THEN main_goes(pin_mode_steps(Cur, args[5], "INPUT", w), "analog_read_1")
         ELSE main_goes(Cur, "return")

\* digital_write(args.pin, args.value)
main_digital_write ==
    /\ op = "main" /\ pc = "digital_write"
    /\ \E w \in IoOutcomes :
         main_goes(digital_write_steps(Cur, args[5], args[6], w), "return")

\* digital_read(args.pin): the command frame,
main_digital_read_1 ==
    /\ op = "main" /\ pc = "digital_read_1"
    /\ \E w \in IoOutcomes :
         main_goes(write_i2c_block(Cur, dRead_cmd \o <<args[5], unused, unused>>, w),
                   "digital_read_2")

\* the settle delay,
main_digital_read_2 ==
    /\ op = "main" /\ pc = "digital_read_2"
    /\ main_goes(sleep(Cur, 100), "digital_read_3")

\* and the byte read back.
main_digital_read_3 ==
    /\ op = "main" /\ pc = "digital_read_3"
    /\ \E r \in IoOutcomes, n \in ByteSamples :
         main_goes(read_i2c_byte(Cur, I2C_ADDRESS, r, n), "print")

\* analog_write(args.pin, args.value)
main_analog_write ==
    /\ op = "main" /\ pc = "analog_write"
    /\ \E w \in IoOutcomes :
         main_goes(analog_write_steps(Cur, args[5], args[6], w), "return")

\* analog_read(args.pin): the command frame,
main_analog_read_1 ==
    /\ op = "main" /\ pc = "analog_read_1"
    /\ \E w \in IoOutcomes :
         main_goes(write_i2c_block(Cur, aRead_cmd \o <<args[5], unused, unused>>, w),
                   "analog_read_2")

\* the settle delay,
main_analog_read_2 ==
    /\ op = "main" /\ pc = "analog_read_2"
    /\ main_goes(sleep(Cur, 100), "analog_read_3")

\* the discarded byte,
main_analog_read_3 ==
    /\ op = "main" /\ pc = "analog_read_3"
    /\ \E rb \in IoOutcomes, d \in DiscardSamples :
         main_goes(read_i2c_byte(Cur, I2C_ADDRESS, rb, d), "analog_read_4")

\* the response block,
main_analog_read_4 ==
    /\ op = "main" /\ pc = "analog_read_4"
    /\ \E rk \in IoOutcomes, number \in Blocks5 :
         main_goes(read_i2c_block(Cur, I2C_ADDRESS, rk, number), "analog_read_5")

\* and the trailing delay.
main_analog_read_5 ==
    /\ op = "main" /\ pc = "analog_read_5"
    /\ main_goes(sleep(Cur, 100), "print")

\* print(digital_read(args.pin)) / print(analog_read(args.pin)): the value
\* the read function returned goes to stdout.
main_print ==
    /\ op = "main" /\ pc = "print"
    /\ result' = IF args[1] = 1
                 THEN StdoutResult(trace[Len(trace)].data[1])
                 ELSE StdoutResult(analog_read_decode(trace[Len(trace) - 1].data))
    /\ pc' = "return"
    /\ UNCHANGED <<op, args, sarg, trace, outcome>>

\* except GrovePiException as e: print(e, file=sys.stderr); any other
\* exception leaves main uncaught.
main_except ==
    /\ op = "main" /\ pc = "except"
    /\ IF outcome.type = "GrovePiException"
       THEN /\ result' = StderrResult(outcome.arg)
            /\ pc' = "sys_exit"
       ELSE /\ pc' = "exit"
            /\ UNCHANGED result
    /\ UNCHANGED <<op, args, sarg, trace, outcome>>

\* sys.exit(1), the last statement of the except clause.
main_sys_exit ==
    /\ op = "main" /\ pc = "sys_exit"
    /\ outcome' = SystemExit("1")
    /\ pc' = "exit"
    /\ UNCHANGED <<op, args, sarg, trace, result>>

\* main returns and the script ends.
main_return ==
    /\ op = "main" /\ pc = "return"
    /\ pc' = "exit"
    /\ UNCHANGED <<op, args, sarg, trace, outcome, result>>

\* sigterm_handler(_signo, _stack_frame): SIGINT or SIGTERM arrived while the
\* process was running; sys.exit(3) ends it where it stands.
sigterm_handler ==
    /\ Running
    /\ outcome' = SystemExit("3")
    /\ pc' = "exit"
    /\ UNCHANGED <<op, args, sarg, trace, result>>

NextCli ==
    \/ main
    \/ main_pin_mode
    \/ main_digital_write
    \/ main_digital_read_1
    \/ main_digital_read_2
    \/ main_digital_read_3
    \/ main_analog_write
    \/ main_analog_read_1
    \/ main_analog_read_2
    \/ main_analog_read_3
    \/ main_analog_read_4
    \/ main_analog_read_5
    \/ main_print
    \/ main_except
    \/ main_sys_exit
    \/ main_return
    \/ sigterm_handler
    \/ NextCall

SpecCli == Init /\ [][NextCli]_vars

---------------------------------------------------------------------------
(* C20: command-line tool ordering                                         *)

\* Opcodes of the four data commands of the tool.
DataOpcodes == {1, 2, 3, 4}

\* The pin-mode write of this invocation of main failed.
PinModeWriteFailed == op = "main" /\ Len(trace) >= 1 /\ trace[1].io # "ok"

\* C20 as stated: in every invocation of main(args) the pin-mode frame
\* [5, pin, m, 0] is written before the data command frame, with m = 1 for a
\* digital or analog write and m = 0 for a read; when the pin-mode write
\* fails, no data command frame is written and the process exits with
\* status 1.
C20_AsStated ==
    op = "main" =>
        /\ Len(trace) >= 1 =>
              /\ trace[1].kind = "write"
              /\ trace[1].data = <<5, args[5], IF args[4] = 1 THEN 1 ELSE 0, 0>>
        /\ \A i \in DOMAIN trace :
              (trace[i].kind = "write" /\ trace[i].data[1] \in DataOpcodes) => i > 1
        /\ PinModeWriteFailed =>
              /\ Len(trace) = 1
              /\ pc = "exit" => outcome = SystemExit("1")

\* C20: in every invocation of main(args) the pin-mode frame [5, pin, m, 0]
\* is the first frame written, with m = 1 for a digital or analog write and
\* m = 0 for a read, and a data command frame is written only after it; when
\* the pin-mode write fails, no data command frame is written and the
\* process exits with status 1 and the error on stderr, or with status 3
\* when SIGINT or SIGTERM ran sigterm_handler before sys.exit(1).
C20_PinModeFirst ==
    op = "main" =>
        /\ Len(trace) >= 1 =>
              /\ trace[1].kind = "write"
              /\ trace[1].data = <<5, args[5], IF args[4] = 1 THEN 1 ELSE 0, 0>>
        /\ \A i \in DOMAIN trace :
              (trace[i].kind = "write" /\ trace[i].data[1] \in DataOpcodes) => i > 1
        /\ pc \in {"return", "print"} => Len(trace) >= 2
        /\ PinModeWriteFailed =>
              /\ Len(trace) = 1
              /\ pc \in {"except", "sys_exit", "exit"}
              /\ pc = "exit" =>
                    \/ outcome = SystemExit("1") /\ result = StderrResult(trace[1].io)
                    \/ outcome = SystemExit("3")

\* main for "analog write pin 3 value 255": the pin-mode write failed, nothing
\* else was written and the tool exited with status 1.
C20_Witness ==
    /\ op = "main"
    /\ pc = "exit"
    /\ args = <<0, 1, 0, 1, 3, 255>>
    /\ trace = <<Ev("write", 4, <<5, 3, 1, 0>>, "EREMOTEIO")>>
    /\ outcome = SystemExit("1")
    /\ result = StderrResult("EREMOTEIO")

=============================================================================
